---- MODULE Spec2Model ----
(***************************************************************************)
(* Process-tree collector (listProcesses) of the workbench: the POSIX ps   *)
(* path, the Windows PowerShell path and the findName classifier.          *)
(*                                                                         *)
(* Strings are sequences of one-character strings, so that the regular     *)
(* expressions of findName are matched the way the engine matches them.    *)
(* Records of the process tree are objects of a heap (a sequence of items, *)
(* an object's identity is its index), because the code links the same     *)
(* object into the map and into its parent's children array.               *)
(***************************************************************************)
EXTENDS Integers, Sequences, FiniteSets, TLC

\* ------------------------------------------------------------------ bounds
\* Process ids of the bounded listings are 1..MaxPid, parent ids 0..MaxPid.
MaxPid == 3
\* A bounded listing has at most MaxLen rows.
MaxLen == 3
\* A command line of the findName harness is made of at most MaxFrags fragments.
MaxFrags == 3

\* The findName harness: a command line, the label findName gave it, which
\* calls were made (called: the first on cmd, again: a second on cmd, other: one
\* on another command line) and js, the lastIndex of the script-name matcher
\* that the latest call used.
VARIABLE fn

\* ----------------------------------------------------------------- strings
Range(s) == {s[i] : i \in DOMAIN s}

Lower == {"a", "b", "c", "d", "e", "f", "g", "h", "i", "j", "k", "l", "m",
          "n", "o", "p", "q", "r", "s", "t", "u", "v", "w", "x", "y", "z"}

Upper == {"A", "B", "C", "D", "E", "F", "G", "H", "I", "J", "K", "L", "M",
          "N", "O", "P", "Q", "R", "S", "T", "U", "V", "W", "X", "Y", "Z"}

\* The character class [a-zA-Z-] of TYPE and JS.
NameChars == Lower \cup Upper \cup {"-"}

RENDERER_PROCESS_HINT ==
    <<"-", "-", "d", "i", "s", "a", "b", "l", "e", "-", "b", "l", "i", "n", "k", "-",
      "f", "e", "a", "t", "u", "r", "e", "s", "=", "A", "u", "x", "c", "l", "i", "c", "k">>

WINDOWS_WATCHER_HINT ==
    <<"\\", "w", "a", "t", "c", "h", "e", "r", "\\", "w", "i", "n", "3", "2", "\\",
      "C", "o", "d", "e", "H", "e", "l", "p", "e", "r", ".", "e", "x", "e">>

WINDOWS_CRASH_REPORTER ==
    <<"-", "-", "c", "r", "a", "s", "h", "e", "s", "-", "d", "i", "r", "e", "c", "t", "o", "r", "y">>

WINDOWS_PTY ==
    <<"\\", "p", "i", "p", "e", "\\", "w", "i", "n", "p", "t", "y", "-",
      "c", "o", "n", "t", "r", "o", "l">>

WINDOWS_CONSOLE_HOST == <<"c", "o", "n", "h", "o", "s", "t", ".", "e", "x", "e">>

\* The literal parts of TYPE = /--type=([a-zA-Z-]+)/ and JS = /[a-zA-Z-]+\.js/g.
TYPE_PREFIX == <<"-", "-", "t", "y", "p", "e", "=">>

JS_SUFFIX == <<".", "j", "s">>

NODE_PREFIX == <<"n", "o", "d", "e", " ">>

ELECTRON_NODE == <<"e", "l", "e", "c", "t", "r", "o", "n", "_", "n", "o", "d", "e", " ">>

RENDERER == <<"r", "e", "n", "d", "e", "r", "e", "r">>

LabelWatcher ==
    <<"w", "a", "t", "c", "h", "e", "r", "S", "e", "r", "v", "i", "c", "e", " ">>

LabelCrashReporter ==
    <<"e", "l", "e", "c", "t", "r", "o", "n", "-", "c", "r", "a", "s", "h", "-",
      "r", "e", "p", "o", "r", "t", "e", "r">>

LabelWinpty == <<"w", "i", "n", "p", "t", "y", "-", "p", "r", "o", "c", "e", "s", "s">>

LabelConsoleHost ==
    <<"c", "o", "n", "s", "o", "l", "e", "-", "w", "i", "n", "d", "o", "w", "-",
      "h", "o", "s", "t", " ", "(", "W", "i", "n", "d", "o", "w", "s", " ",
      "i", "n", "t", "e", "r", "n", "a", "l", " ", "p", "r", "o", "c", "e", "s", "s", ")">>

LabelSharedProcess ==
    <<"s", "h", "a", "r", "e", "d", "-", "p", "r", "o", "c", "e", "s", "s">>

LabelWindow == <<"w", "i", "n", "d", "o", "w">>

\* s has pat at position i (1-based).
HasAt(s, pat, i) ==
    /\ i >= 1
    /\ i + Len(pat) - 1 <= Len(s)
    /\ pat = <<>> \/ s[i] = pat[1]
    /\ SubSeq(s, i, i + Len(pat) - 1) = pat

\* RegExp.exec of a pattern that is one literal string: is there a match.
RegexTest(pat, s) == \E i \in 1..Len(s) : HasAt(s, pat, i)

\* String.prototype.indexOf(pat) === 0.
StartsWith(s, pat) == HasAt(s, pat, 1)

\* Last position of the longest run of [a-zA-Z-] that starts at i (i - 1: none).
RECURSIVE RunEnd(_, _)
RunEnd(s, i) ==
    IF i <= Len(s) /\ s[i] \in NameChars THEN RunEnd(s, i + 1) ELSE i - 1

\* TYPE.exec(cmd): the leftmost position where "--type=" is followed by at
\* least one character of the class; the group is the longest such run.
TypeStarts(s) ==
    {i \in 1..Len(s) : HasAt(s, TYPE_PREFIX, i) /\ RunEnd(s, i + 7) >= i + 7}

Min(S) == CHOOSE x \in S : \A y \in S : x <= y

Max(S) == CHOOSE x \in S : \A y \in S : x >= y

\* A search that gives the last flag of the command line, not the first.
TypeExecLast(s) ==
    IF TypeStarts(s) = {}
    THEN [found |-> FALSE, group |-> <<>>]
    ELSE LET i == Max(TypeStarts(s))
         IN [found |-> TRUE, group |-> SubSeq(s, i + 7, RunEnd(s, i + 7))]

TypeExec(s) ==
    IF TypeStarts(s) = {}
    THEN [found |-> FALSE, group |-> <<>>]
    ELSE LET i == Min(TypeStarts(s))
         IN [found |-> TRUE, group |-> SubSeq(s, i + 7, RunEnd(s, i + 7))]

\* JS.exec(cmd) from lastIndex (here 1-based: the first position to try): the
\* leftmost position where a run of the class is followed by ".js". The run
\* is greedy and "." is not in the class, so only the longest run can match.
JsStarts(s, from) ==
    {i \in from..Len(s) : RunEnd(s, i) >= i /\ HasAt(s, JS_SUFFIX, RunEnd(s, i) + 1)}

JsExec(s, from) ==
    IF JsStarts(s, from) = {}
    THEN [found |-> FALSE, text |-> <<>>, lastIndex |-> 1]
    ELSE LET i == Min(JsStarts(s, from))
             e == RunEnd(s, i) + 3
         IN [found |-> TRUE, text |-> SubSeq(s, i, e), lastIndex |-> e + 1]

\* A loop that is left after the first match.
JsLoopOnce(s, from, result) ==
    LET m == JsExec(s, from)
    IN IF m.found THEN result \o m.text \o <<" ">> ELSE result

\* The do/while loop over JS.exec: result += matches + ' '.
RECURSIVE JsLoop(_, _, _)
JsLoop(s, from, result) ==
    LET m == JsExec(s, from)
    IN IF m.found THEN JsLoop(s, m.lastIndex, result \o m.text \o <<" ">>)
       ELSE result

\* JS.lastIndex when the loop is left: the exec that fails sets it back.
RECURSIVE JsLeft(_, _)
JsLeft(s, from) ==
    LET m == JsExec(s, from)
    IN IF m.found THEN JsLeft(s, m.lastIndex) ELSE m.lastIndex

\* One matcher for all calls, asked once per call: it goes on from where the
\* call before stopped.
JsScanShared(s, left) ==
    LET m == JsExec(s, left)
    IN [result |-> IF m.found THEN m.text \o <<" ">> ELSE <<>>, lastIndex |-> m.lastIndex]

\* const JS = /[a-zA-Z-]+\.js/g; let result = ''; do { ... } while (matches):
\* the literal makes a new matcher in every call (lastIndex 0, here position
\* 1), whatever the matcher of an earlier call was left at. The result and
\* the lastIndex of this call's matcher after the loop.
JsScan(s, left) == [result |-> JsLoop(s, 1, <<>>), lastIndex |-> JsLeft(s, 1)]

\* findName with the watcher rule after the crash-reporter rule.
findNameSwapped(cmd) ==
    IF RegexTest(WINDOWS_CRASH_REPORTER, cmd) THEN LabelCrashReporter
    ELSE IF RegexTest(WINDOWS_WATCHER_HINT, cmd) THEN LabelWatcher
    ELSE IF RegexTest(WINDOWS_PTY, cmd) THEN LabelWinpty
    ELSE IF RegexTest(WINDOWS_CONSOLE_HOST, cmd) THEN LabelConsoleHost
    ELSE LET matches == TypeExec(cmd)
         IN IF matches.found
            THEN IF matches.group = RENDERER
                 THEN IF ~RegexTest(RENDERER_PROCESS_HINT, cmd)
                      THEN LabelSharedProcess
                      ELSE LabelWindow
                 ELSE matches.group
            ELSE LET result == JsScan(cmd, fn.js).result
                 IN IF result # <<>> /\ ~StartsWith(cmd, NODE_PREFIX)
                    THEN ELECTRON_NODE \o result
                    ELSE cmd

findName(cmd) ==
    IF RegexTest(WINDOWS_WATCHER_HINT, cmd) THEN LabelWatcher
    ELSE IF RegexTest(WINDOWS_CRASH_REPORTER, cmd) THEN LabelCrashReporter
    ELSE IF RegexTest(WINDOWS_PTY, cmd) THEN LabelWinpty
    ELSE IF RegexTest(WINDOWS_CONSOLE_HOST, cmd) THEN LabelConsoleHost
    ELSE LET matches == TypeExec(cmd)
         IN IF matches.found
            THEN IF matches.group = RENDERER
                 THEN IF ~RegexTest(RENDERER_PROCESS_HINT, cmd)
                      THEN LabelSharedProcess
                      ELSE LabelWindow
                 ELSE matches.group
            ELSE LET result == JsScan(cmd, fn.js).result
                 IN IF result # <<>> /\ ~StartsWith(cmd, NODE_PREFIX)
                    THEN ELECTRON_NODE \o result
                    ELSE cmd

\* The matcher state a call of findName leaves behind: that of its JS matcher
\* if the call came as far as the script-name loop.
findNameLeaves(cmd) ==
    IF \/ RegexTest(WINDOWS_WATCHER_HINT, cmd)
       \/ RegexTest(WINDOWS_CRASH_REPORTER, cmd)
       \/ RegexTest(WINDOWS_PTY, cmd)
       \/ RegexTest(WINDOWS_CONSOLE_HOST, cmd)
       \/ TypeExec(cmd).found
    THEN fn.js
    ELSE JsScan(cmd, fn.js).lastIndex

\* ------------------------------------------------------------ JS values
Calls == {1, 2}

\* undefined, where an object of the heap is expected (objects are 1, 2, ...).
NoItem == 0

\* A number is the pair <<n, d>> for n / d (the division is not carried out).
Num(n, d) == <<n, d>>

\* Map<number, ProcessItem>: the entries in insertion order.
MapHas(m, k) == \E i \in DOMAIN m : m[i].key = k

MapGet(m, k) ==
    IF MapHas(m, k) THEN m[CHOOSE i \in DOMAIN m : m[i].key = k].value ELSE NoItem

\* A set that is forgotten.
MapSetNothing(m, k, v) == m

MapSet(m, k, v) ==
    IF MapHas(m, k)
    THEN [i \in DOMAIN m |-> IF m[i].key = k THEN [key |-> k, value |-> v] ELSE m[i]]
    ELSE Append(m, [key |-> k, value |-> v])

\* The closure variable `map` of call c: every call has its own.
MapShared(c) == 1

MapSlot(c) == c

\* An item literal that already carries an empty children array.
NewItemWithArray(c, pid, ppid, cmd, load, mem) ==
    [owner |-> c, name |-> findName(cmd), cmd |-> cmd, pid |-> pid, ppid |-> ppid,
     load |-> load, mem |-> mem, hasChildren |-> TRUE, children |-> <<>>]

\* The ProcessItem literal: no children field. owner is the call that made it.
NewItem(c, pid, ppid, cmd, load, mem) ==
    [owner |-> c, name |-> findName(cmd), cmd |-> cmd, pid |-> pid, ppid |-> ppid,
     load |-> load, mem |-> mem, hasChildren |-> FALSE, children |-> <<>>]

\* Array.prototype.sort((a, b) => a.pid - b.pid) on an array of objects of h.
RECURSIVE InsertByPid(_, _, _)
InsertByPid(sorted, id, h) ==
    IF sorted = <<>> THEN <<id>>
    ELSE IF h[sorted[Len(sorted)]].pid <= h[id].pid THEN Append(sorted, id)
    ELSE Append(InsertByPid(SubSeq(sorted, 1, Len(sorted) - 1), id, h),
                sorted[Len(sorted)])

RECURSIVE SortFrom(_, _, _, _)
SortFrom(ids, i, acc, h) ==
    IF i > Len(ids) THEN acc ELSE SortFrom(ids, i + 1, InsertByPid(acc, ids[i], h), h)

\* A sort that leaves the array as it is.
SortNothing(ids, h) == ids

SortByPid(ids, h) == SortFrom(ids, 1, <<>>, h)

\* if (!parent.children) parent.children = []; parent.children.push(item)
PushChild(h, parent, id) ==
    [h EXCEPT ![parent].hasChildren = TRUE,
              ![parent].children = Append(h[parent].children, id)]

\* ------------------------------------------------------------ addToTree
\* A parent lookup that falls back to the root item.
ParentOrRoot(st, ppid) ==
    IF MapGet(st.map, ppid) # NoItem THEN MapGet(st.map, ppid) ELSE st.rootItem

\* const parent = map.get(ppid)
ParentOf(st, ppid) == MapGet(st.map, ppid)

\* An addToTree that takes every record, with or without its parent.
addToTreeAlways(st, c, root, pid, ppid, cmd, load, mem) ==
    LET parent == ParentOf(st, ppid)
        id == Len(st.heap) + 1
        h1 == Append(st.heap, NewItem(c, pid, ppid, cmd, load, mem))
        h2 == IF parent # NoItem THEN PushChild(h1, parent, id) ELSE h1
        h3 == IF parent # NoItem /\ Len(h2[parent].children) > 1
              THEN [h2 EXCEPT ![parent].children = SortByPid(h2[parent].children, h2)]
              ELSE h2
    IN [heap |-> h3,
        map |-> MapSet(st.map, pid, id),
        rootItem |-> IF pid = root THEN id ELSE st.rootItem]

\* st = [heap, map, rootItem]: the heap and the closure variables of call c.
addToTree(st, c, root, pid, ppid, cmd, load, mem) ==
    LET parent == ParentOf(st, ppid)
    IN IF pid = root \/ parent # NoItem
       THEN LET id == Len(st.heap) + 1
                h1 == Append(st.heap, NewItem(c, pid, ppid, cmd, load, mem))
                h2 == IF parent # NoItem THEN PushChild(h1, parent, id) ELSE h1
                h3 == IF parent # NoItem /\ Len(h2[parent].children) > 1
                      THEN [h2 EXCEPT ![parent].children =
                                          SortByPid(h2[parent].children, h2)]
                      ELSE h2
            IN [heap |-> h3,
                map |-> MapSet(st.map, pid, id),
                rootItem |-> IF pid = root THEN id ELSE st.rootItem]
       ELSE st

\* ---------------------------------------------------- external processes
\* What the operating system reports for a process: samples of the harness.
SampleCommandLines ==
    << <<"s", "h", " ">>,
       <<"-", "-", "t", "y", "p", "e", "=", "g">>,
       <<"\\", "\\", "?", "\\", "x">>,
       <<"\"", "\\", "?", "?", "\\", "y">> >>

\* One element of the text an external process writes: a JSON record or
\* bracket of the PowerShell helper, or a line of ps. The text names the process
\* of a record or line; the other fields of the record or line are read below.
Tok(type, pid, ppid) == [type |-> type, pid |-> pid, ppid |-> ppid]

Bracket(type) == [type |-> type, pid |-> 0, ppid |-> 0]

\* item.commandLine of a record, matches[5] of a line.
CommandLineOf(tok) == SampleCommandLines[(tok.pid % Len(SampleCommandLines)) + 1]

\* item.cpuLoad of a record: the samples, if the field is there. The helper
\* reports no sample for process 2 (an empty array) and no field for process 3.
CpuLoadOf(tok) ==
    IF tok.pid = 2 THEN [present |-> TRUE, samples |-> <<>>]
    ELSE IF tok.pid = 3 THEN [present |-> FALSE, samples |-> <<>>]
    ELSE [present |-> TRUE, samples |-> <<tok.pid, tok.pid + 2>>]

\* item.workingSetSize of a record.
WorkingSetSizeOf(tok) == 10 * tok.pid

\* parseFloat(matches[3]) and parseFloat(matches[4]) of a line: pcpu and pmem
\* are written with one decimal.
PcpuOf(tok) == Num(tok.pid, 10)

PmemOf(tok) == Num(tok.pid + 1, 10)

\* String.prototype.trim, for the blank as the white space.
RECURSIVE TrimStart(_)
TrimStart(s) == IF s # <<>> /\ Head(s) = " " THEN TrimStart(Tail(s)) ELSE s

RECURSIVE TrimEnd(_)
TrimEnd(s) ==
    IF s # <<>> /\ s[Len(s)] = " " THEN TrimEnd(SubSeq(s, 1, Len(s) - 1)) ELSE s

Trim(s) == TrimStart(TrimEnd(s))

\* matches[5] of PID_CMD.exec(line.trim()): the line ends with the command, so
\* trim takes the blanks at its end, and \s+ before (.+) those at its start.
PsCommand(line) == Trim(CommandLineOf(line))

\* A line that aborts the parse: what was built so far is lost.
ProcessLineAbort(st, c, root, line) ==
    IF line.type = "line" /\ PsCommand(line) # <<>>
    THEN addToTree(st, c, root, line.pid, line.ppid, PsCommand(line),
                   PcpuOf(line), PmemOf(line))
    ELSE [heap |-> st.heap, map |-> <<>>, rootItem |-> NoItem]

\* The body of for (const line of lines): matches = PID_CMD.exec(line.trim());
\* a line that matches goes to addToTree, any other line is skipped.
ProcessLine(st, c, root, line) ==
    IF line.type = "line" /\ PsCommand(line) # <<>>
    THEN addToTree(st, c, root, line.pid, line.ppid, PsCommand(line),
                   PcpuOf(line), PmemOf(line))
    ELSE st

RECURSIVE Flatten(_)
Flatten(chunks) == IF chunks = <<>> THEN <<>> ELSE Head(chunks) \o Flatten(Tail(chunks))

\* The helper's JSON text for a listing; top: the root is also reported as a
\* 'topProcess' record; complete: the closing bracket was written.
HelperText(rows, root, top, complete) ==
    <<Bracket("[")>>
    \o [i \in DOMAIN rows |-> Tok("processInfo", rows[i].pid, rows[i].ppid)]
    \o (IF top THEN <<Tok("topProcess", root, 0)>> ELSE <<>>)
    \o (IF complete THEN <<Bracket("]")>> ELSE <<>>)

\* stdout.toString().split('\n') of what ps writes for a listing: a line per
\* process and, as ps ends its last line with a newline too, the empty string.
\* noisy: ps also writes, before every process line, a line that PID_CMD does
\* not match.
PsText(rows, noisy) ==
    Flatten([i \in DOMAIN rows |->
                (IF noisy THEN <<Bracket("other")>> ELSE <<>>)
                \o <<Tok("line", rows[i].pid, rows[i].ppid)>>])
    \o <<Bracket("empty")>>

\* The text reaches the 'data' handler in two chunks: all but the last
\* element, then the last element.
Chunks(text) ==
    IF Len(text) <= 1 THEN <<text>>
    ELSE <<SubSeq(text, 1, Len(text) - 1), <<text[Len(text)]>>>>

\* JSON.parse(stdout): throws unless the text is one complete array.
JSONparse(text) ==
    IF /\ Len(text) >= 2
       /\ text[1].type = "["
       /\ text[Len(text)].type = "]"
       /\ \A i \in 2..(Len(text) - 1) : text[i].type \in {"processInfo", "topProcess"}
    THEN [ok |-> TRUE, items |-> SubSeq(text, 2, Len(text) - 1)]
    ELSE [ok |-> FALSE, items |-> <<>>]

\* --------------------------------------------------------------- promise
Pending == [state |-> "pending", value |-> NoItem, reason |-> <<>>]

Fulfilled(v) == [state |-> "fulfilled", value |-> v, reason |-> <<>>]

Rejected(r) == [state |-> "rejected", value |-> NoItem, reason |-> r]

\* resolve and reject of a promise that is already settled do nothing.
Settle(p, q) == IF p.state = "pending" THEN q ELSE p

SyntaxError == <<"SyntaxError">>

ExecError == <<"Command failed">>

RootNotFound(root) == <<"Root process ", ToString(root), " not found">>

\* ------------------------------------------------- win32 'exit' handler
\* let load = 0; if (item.cpuLoad) { sum; load = load / length } else load = -1
RECURSIVE Sum(_)
Sum(s) == IF s = <<>> THEN 0 ELSE Head(s) + Sum(Tail(s))

WinLoad(cpuLoad) ==
    IF cpuLoad.present THEN Num(Sum(cpuLoad.samples), Len(cpuLoad.samples))
    ELSE Num(-1, 1)

\* A cleanUNCPrefix without the two cases of a quoted path.
cleanUNCPrefixUnquoted(value) ==
    IF StartsWith(value, <<"\\", "\\", "?", "\\">>) THEN SubSeq(value, 5, Len(value))
    ELSE IF StartsWith(value, <<"\\", "?", "?", "\\">>) THEN SubSeq(value, 5, Len(value))
    ELSE value

cleanUNCPrefix(value) ==
    IF StartsWith(value, <<"\\", "\\", "?", "\\">>) THEN SubSeq(value, 5, Len(value))
    ELSE IF StartsWith(value, <<"\\", "?", "?", "\\">>) THEN SubSeq(value, 5, Len(value))
    ELSE IF StartsWith(value, <<"\"", "\\", "\\", "?", "\\">>)
         THEN <<"\"">> \o SubSeq(value, 6, Len(value))
    ELSE IF StartsWith(value, <<"\"", "\\", "?", "?", "\\">>)
         THEN <<"\"">> \o SubSeq(value, 6, Len(value))
    ELSE value

\* for (const item of items) if (item.type === 'processInfo') processItems.set(...)
RECURSIVE CollectItems(_, _, _, _, _)
CollectItems(h, m, items, i, c) ==
    IF i > Len(items) THEN [heap |-> h, map |-> m]
    ELSE IF items[i].type = "processInfo"
    THEN CollectItems(
             Append(h, NewItem(c, items[i].pid, items[i].ppid,
                               cleanUNCPrefix(CommandLineOf(items[i])),
                               WinLoad(CpuLoadOf(items[i])),
                               Num(WorkingSetSizeOf(items[i]), 1))),
             MapSet(m, items[i].pid, Len(h) + 1), items, i + 1, c)
    ELSE CollectItems(h, m, items, i + 1, c)

\* processItems.forEach(item => { parent = processItems.get(item.ppid); push })
RECURSIVE LinkItems(_, _, _)
LinkItems(h, m, i) ==
    IF i > Len(m) THEN h
    ELSE LET parent == MapGet(m, h[m[i].value].ppid)
         IN LinkItems(IF parent # NoItem THEN PushChild(h, parent, m[i].value) ELSE h,
                      m, i + 1)

\* processItems.forEach(item => { if (item.children) item.children = sort })
RECURSIVE SortItems(_, _, _)
SortItems(h, m, i) ==
    IF i > Len(m) THEN h
    ELSE LET id == m[i].value
         IN SortItems(IF h[id].hasChildren
                      THEN [h EXCEPT ![id].children = SortByPid(h[id].children, h)]
                      ELSE h,
                      m, i + 1)

\* A root test that is always true.
RootAlwaysFound(item) == TRUE

\* if (rootItem)
RootFound(item) == item # NoItem

\* The handler of cmd.on('exit'), run on the heap h for call c with the
\* stdout and stderr collected so far: the new heap, rootItem and settlement.
OnExit(h, c, root, out, err) ==
    IF Len(err) > 0
    THEN [heap |-> h, rootItem |-> NoItem, settle |-> Rejected(err)]
    ELSE LET parsed == JSONparse(out)
         IN IF ~parsed.ok
            THEN [heap |-> h, rootItem |-> NoItem, settle |-> Rejected(SyntaxError)]
            ELSE LET got == CollectItems(h, <<>>, parsed.items, 1, c)
                     item == MapGet(got.map, root)
                 IN IF RootFound(item)
                    THEN [heap |-> SortItems(LinkItems(got.heap, got.map, 1), got.map, 1),
                          rootItem |-> item,
                          settle |-> Fulfilled(item)]
                    ELSE [heap |-> got.heap, rootItem |-> item,
                          settle |-> Rejected(RootNotFound(root))]


\* ------------------------------------------------------------------ state
VARIABLES
    platform,   \* process.platform: "win32" or "posix"
    listing,    \* the rows of the operating system's process listing, in its order
    callers,    \* the calls of listProcesses the application makes
    pc,         \* per call: "idle", "waiting" (for the external process),
                \* "loop" (inside the for loop of the exec callback), "done",
                \* "failed" (the 'error' event of the child went unhandled)
    rootPid,    \* per call: the argument
    child,      \* per call: the external process: how it runs (exit code, what
                \* it writes) and the chunks not yet delivered (out, err)
    stdout,     \* per call: stdout collected so far (win32), or handed to the
    stderr,     \* exec callback (posix); likewise stderr
    lineNo,     \* per call: the next line of the for loop (posix)
    heap,       \* the ProcessItem objects made so far, by identity
    map,        \* the closure variable map, per slot
    rootItem,   \* per call: the closure variable rootItem
    promise     \* per call: the promise listProcesses returned

vars == <<platform, listing, callers, pc, rootPid, child, stdout, stderr, lineNo,
          heap, map, rootItem, promise, fn>>

Row(pid, ppid) == [pid |-> pid, ppid |-> ppid]

UniquePids(rows) ==
    \A i, j \in DOMAIN rows : rows[i].pid = rows[j].pid => i = j

\* Every listing of at most MaxLen processes with different pids.
BoundedListings ==
    {rows \in UNION {[1..n -> [pid : 1..MaxPid, ppid : 0..MaxPid]] : n \in 0..MaxLen} :
        UniquePids(rows)}

\* The listing {1 (ppid 0), 2 (ppid 1), 3 (ppid 1), 4 (ppid 2)} in three
\* orders, and a listing without process 2.
SampleListings ==
    { <<Row(1, 0), Row(2, 1), Row(3, 1), Row(4, 2)>>,
      <<Row(4, 2), Row(3, 1), Row(2, 1), Row(1, 0)>>,
      <<Row(1, 0), Row(3, 1), Row(4, 2), Row(2, 1)>>,
      <<Row(1, 0), Row(3, 1)>> }

\* The roots asked for: the smallest pid, and one with pids on both sides.
RootPids == {1, 2}

\* How an external process can behave: its exit code, what it writes to
\* stderr, whether its stdout is complete, whether the helper reports the
\* root as a 'topProcess' record, and whether ps writes lines of another form.
QuietRuns ==
    {[code |-> 0, errText |-> <<>>, complete |-> TRUE, top |-> FALSE, noisy |-> FALSE]}

AllRuns ==
    [code : {0, 1}, errText : {<<>>, <<"error">>}, complete : BOOLEAN, top : BOOLEAN,
     noisy : BOOLEAN]

\* The external process could not be started at all: the process handle
\* reports the error number of the failed spawn (ENOENT, -2) where a process
\* that ran reports its exit code, and nothing is written.
FailedStart ==
    [code |-> -2, errText |-> <<>>, complete |-> FALSE, top |-> FALSE, noisy |-> FALSE]

Started(run) == run.code >= 0

\* Failing external processes are explored for the single call on the sample
\* listings; ps writes no JSON, so its text is never cut or extended, and the
\* helper writes no lines.
Runs ==
    IF callers = {1} /\ listing \in SampleListings
    THEN {FailedStart}
         \cup (IF platform = "win32" THEN {r \in AllRuns : ~r.noisy}
               ELSE {r \in AllRuns : r.complete /\ ~r.top})
    ELSE QuietRuns

NoChild == [run |-> CHOOSE r \in QuietRuns : TRUE, out |-> <<>>, err |-> <<>>]

\* Everything the external process of call c writes to its stdout.
TextOf(c) ==
    IF ~Started(child[c].run) THEN <<>>
    ELSE IF platform = "win32"
    THEN HelperText(listing, rootPid[c], child[c].run.top, child[c].run.complete)
    ELSE PsText(listing, child[c].run.noisy)

NoFn ==
    [cmd |-> <<>>, called |-> FALSE, name |-> <<>>, js |-> 1,
     again |-> FALSE, other |-> FALSE]

Init ==
    /\ platform \in {"win32", "posix"}
    /\ \/ listing \in BoundedListings \cup SampleListings /\ callers = {1}
       \/ listing \in SampleListings /\ callers = Calls
    /\ pc = [c \in Calls |-> "idle"]
    /\ rootPid = [c \in Calls |-> 0]
    /\ child = [c \in Calls |-> NoChild]
    /\ stdout = [c \in Calls |-> <<>>]
    /\ stderr = [c \in Calls |-> <<>>]
    /\ lineNo = [c \in Calls |-> 1]
    /\ heap = <<>>
    /\ map = [c \in Calls |-> <<>>]
    /\ rootItem = [c \in Calls |-> NoItem]
    /\ promise = [c \in Calls |-> Pending]
    /\ fn = NoFn

\* JavaScript runs a callback to completion: no other callback starts while
\* the exec callback of some call is inside its loop.
NoCallbackRunning == \A c \in Calls : pc[c] # "loop"

\* ---------------------------------------------------------------- actions
\* listProcesses(root): the executor of the promise spawns the external process.
listProcesses(c) ==
    /\ c \in callers
    /\ pc[c] = "idle"
    /\ NoCallbackRunning
    /\ \E root \in RootPids, run \in Runs :
         LET text == IF platform = "win32"
                     THEN HelperText(listing, root, run.top, run.complete)
                     ELSE PsText(listing, run.noisy)
         IN /\ rootPid' = [rootPid EXCEPT ![c] = root]
            /\ child' = [child EXCEPT ![c] =
                   [run |-> run,
                    out |-> IF ~Started(run) THEN <<>>
                            ELSE IF platform = "win32" THEN Chunks(text) ELSE <<text>>,
                    err |-> IF run.errText = <<>> THEN <<>> ELSE <<run.errText>>]]
    /\ pc' = [pc EXCEPT ![c] = "waiting"]
    /\ UNCHANGED <<platform, listing, callers, stdout, stderr, lineNo, heap, map,
                   rootItem, promise, fn>>

\* cmd.stdout.on('data', data => { stdout += data.toString() })
StdoutData(c) ==
    /\ platform = "win32"
    /\ pc[c] # "idle"
    /\ NoCallbackRunning
    /\ child[c].out # <<>>
    /\ stdout' = [stdout EXCEPT ![c] = stdout[c] \o Head(child[c].out)]
    /\ child' = [child EXCEPT ![c].out = Tail(child[c].out)]
    /\ UNCHANGED <<platform, listing, callers, pc, rootPid, stderr, lineNo, heap, map,
                   rootItem, promise, fn>>

\* cmd.stderr.on('data', data => { stderr += data.toString() })
StderrData(c) ==
    /\ platform = "win32"
    /\ pc[c] # "idle"
    /\ NoCallbackRunning
    /\ child[c].err # <<>>
    /\ stderr' = [stderr EXCEPT ![c] = stderr[c] \o Head(child[c].err)]
    /\ child' = [child EXCEPT ![c].err = Tail(child[c].err)]
    /\ UNCHANGED <<platform, listing, callers, pc, rootPid, stdout, lineNo, heap, map,
                   rootItem, promise, fn>>

\* cmd.on('exit', () => { ... }): the 'exit' event of the child process does
\* not wait for its streams, so chunks may still be undelivered.
Exit(c) ==
    /\ platform = "win32"
    /\ pc[c] = "waiting"
    /\ Started(child[c].run)
    /\ NoCallbackRunning
    /\ LET r == OnExit(heap, c, rootPid[c], stdout[c], stderr[c])
       IN /\ heap' = r.heap
          /\ rootItem' = [rootItem EXCEPT ![c] = r.rootItem]
          /\ promise' = [promise EXCEPT ![c] = Settle(promise[c], r.settle)]
    /\ pc' = [pc EXCEPT ![c] = "done"]
    /\ UNCHANGED <<platform, listing, callers, rootPid, child, stdout, stderr, lineNo,
                   map, fn>>

\* spawn could not start powershell.exe: the child process emits 'error' in
\* place of 'exit'. No 'error' listener is registered, so the event is thrown
\* as an exception of the event loop's tick, outside the executor of the
\* promise: neither resolve nor reject is called.
SpawnError(c) ==
    /\ platform = "win32"
    /\ pc[c] = "waiting"
    /\ ~Started(child[c].run)
    /\ NoCallbackRunning
    /\ pc' = [pc EXCEPT ![c] = "failed"]
    /\ UNCHANGED <<platform, listing, callers, rootPid, child, stdout, stderr, lineNo,
                   heap, map, rootItem, promise, fn>>

\* exec(CMD, ..., (err, stdout, stderr) => { if (err || stderr) reject(...) else
\* { lines = stdout.toString().split('\n'); ... } }): exec calls back once the
\* process has ended and its streams are closed, with everything it wrote, or
\* when the process could not be started; err is set for a failed start and
\* for an exit code other than 0.
ExecCallback(c) ==
    /\ platform = "posix"
    /\ pc[c] = "waiting"
    /\ NoCallbackRunning
    /\ stdout' = [stdout EXCEPT ![c] = Flatten(child[c].out)]
    /\ stderr' = [stderr EXCEPT ![c] = Flatten(child[c].err)]
    /\ child' = [child EXCEPT ![c].out = <<>>, ![c].err = <<>>]
    /\ IF child[c].run.code # 0
       THEN /\ promise' = [promise EXCEPT ![c] = Settle(promise[c], Rejected(ExecError))]
            /\ pc' = [pc EXCEPT ![c] = "done"]
       ELSE IF Flatten(child[c].err) # <<>>
       THEN /\ promise' = [promise EXCEPT ![c] =
                               Settle(promise[c], Rejected(Flatten(child[c].err)))]
            /\ pc' = [pc EXCEPT ![c] = "done"]
       ELSE /\ promise' = promise
            /\ pc' = [pc EXCEPT ![c] = "loop"]
    /\ lineNo' = [lineNo EXCEPT ![c] = 1]
    /\ UNCHANGED <<platform, listing, callers, rootPid, heap, map, rootItem, fn>>

\* One turn of for (const line of lines).
ExecLine(c) ==
    /\ pc[c] = "loop"
    /\ lineNo[c] <= Len(stdout[c])
    /\ LET line == stdout[c][lineNo[c]]
           st == [heap |-> heap, map |-> map[MapSlot(c)], rootItem |-> rootItem[c]]
           r == ProcessLine(st, c, rootPid[c], line)
       IN /\ heap' = r.heap
          /\ map' = [map EXCEPT ![MapSlot(c)] = r.map]
          /\ rootItem' = [rootItem EXCEPT ![c] = r.rootItem]
    /\ lineNo' = [lineNo EXCEPT ![c] = lineNo[c] + 1]
    /\ UNCHANGED <<platform, listing, callers, pc, rootPid, child, stdout, stderr,
                   promise, fn>>

\* After the loop: resolve(rootItem).
ExecResolve(c) ==
    /\ pc[c] = "loop"
    /\ lineNo[c] > Len(stdout[c])
    /\ promise' = [promise EXCEPT ![c] = Settle(promise[c], Fulfilled(rootItem[c]))]
    /\ pc' = [pc EXCEPT ![c] = "done"]
    /\ UNCHANGED <<platform, listing, callers, rootPid, child, stdout, stderr, lineNo,
                   heap, map, rootItem, fn>>

\* ------------------------------------------------------ findName harness
Fragments ==
    { <<"\\", "w", "a", "t", "c", "h", "e", "r", "\\", "w", "i", "n", "3", "2", "\\",
        "C", "o", "d", "e", "H", "e", "l", "p", "e", "r", ".", "e", "x", "e">>,
      <<" ", "-", "-", "c", "r", "a", "s", "h", "e", "s", "-", "d", "i", "r", "e", "c",
        "t", "o", "r", "y">>,
      <<"\\", "p", "i", "p", "e", "\\", "w", "i", "n", "p", "t", "y", "-",
        "c", "o", "n", "t", "r", "o", "l">>,
      <<"c", "o", "n", "h", "o", "s", "t", ".", "e", "x", "e">>,
      <<" ", "-", "-", "t", "y", "p", "e", "=", "r", "e", "n", "d", "e", "r", "e", "r">>,
      <<" ", "-", "-", "t", "y", "p", "e", "=", "g", "p", "u", "-",
        "p", "r", "o", "c", "e", "s", "s">>,
      <<" ", "-", "-", "d", "i", "s", "a", "b", "l", "e", "-", "b", "l", "i", "n", "k", "-",
        "f", "e", "a", "t", "u", "r", "e", "s", "=", "A", "u", "x", "c", "l", "i", "c", "k">>,
      <<"n", "o", "d", "e", " ">>,
      <<"f", "o", "o", ".", "j", "s">>,
      <<" ", "b", "a", "r", ".", "j", "s">>,
      <<"/", "u", "s", "r", "/", "b", "i", "n", "/", "x", " ">>,
      <<"c", "o", "d", "e">> }

\* The command lines made of 1..MaxFrags fragments.
CmdLines ==
    {Flatten(fs) : fs \in UNION {[1..n -> Fragments] : n \in 1..MaxFrags}}

\* The command lines of the calls made in between.
OtherCmdLines == {<<"f", "o", "o", ".", "j", "s">>, <<"c", "o", "d", "e">>}

InitName ==
    /\ fn \in {[NoFn EXCEPT !.cmd = cmd] : cmd \in CmdLines}
    /\ platform = "posix"
    /\ listing = <<>>
    /\ callers = {}
    /\ pc = [c \in Calls |-> "idle"]
    /\ rootPid = [c \in Calls |-> 0]
    /\ child = [c \in Calls |-> NoChild]
    /\ stdout = [c \in Calls |-> <<>>]
    /\ stderr = [c \in Calls |-> <<>>]
    /\ lineNo = [c \in Calls |-> 1]
    /\ heap = <<>>
    /\ map = [c \in Calls |-> <<>>]
    /\ rootItem = [c \in Calls |-> NoItem]
    /\ promise = [c \in Calls |-> Pending]

\* name = findName(cmd)
Classify ==
    /\ ~fn.called
    /\ fn' = [fn EXCEPT !.called = TRUE, !.name = findName(fn.cmd),
                         !.js = findNameLeaves(fn.cmd)]
    /\ UNCHANGED <<platform, listing, callers, pc, rootPid, child, stdout, stderr,
                   lineNo, heap, map, rootItem, promise>>

\* findName(other), for a record of another process: before or after.
ClassifyOther ==
    /\ ~fn.other
    /\ \E o \in OtherCmdLines :
           fn' = [fn EXCEPT !.other = TRUE, !.js = findNameLeaves(o)]
    /\ UNCHANGED <<platform, listing, callers, pc, rootPid, child, stdout, stderr,
                   lineNo, heap, map, rootItem, promise>>

\* name = findName(cmd), once more.
ClassifyAgain ==
    /\ fn.called
    /\ ~fn.again
    /\ fn' = [fn EXCEPT !.again = TRUE, !.name = findName(fn.cmd),
                         !.js = findNameLeaves(fn.cmd)]
    /\ UNCHANGED <<platform, listing, callers, pc, rootPid, child, stdout, stderr,
                   lineNo, heap, map, rootItem, promise>>

NextName == Classify \/ ClassifyOther \/ ClassifyAgain

SpecName == InitName /\ [][NextName]_vars

Next ==
    \E c \in Calls :
        \/ listProcesses(c)
        \/ StdoutData(c)
        \/ StderrData(c)
        \/ Exit(c)
        \/ SpawnError(c)
        \/ ExecCallback(c)
        \/ ExecLine(c)
        \/ ExecResolve(c)

Spec == Init /\ [][Next]_vars

\* The 'exit' event of a started child, as far as the control state shows it:
\* Exit(c) is the only step of Next that takes pc[c] from "waiting" to "done"
\* on Windows, so a step of Next is an <<ExitEvent(c)>>_pc step exactly when
\* it is an Exit(c) step, and both are enabled in the same states.
ExitEvent(c) ==
    /\ platform = "win32"
    /\ pc[c] = "waiting"
    /\ Started(child[c].run)
    /\ NoCallbackRunning
    /\ pc' = [pc EXCEPT ![c] = "done"]

\* The event loop delivers every event that is due and runs every callback
\* to its end; whether the application calls listProcesses is up to it.
\* Weak fairness of Exit(c) is stated through ExitEvent(c), whose enabling
\* condition does not need the handler's result.
Fairness ==
    \A c \in Calls :
        /\ WF_vars(StdoutData(c))
        /\ WF_vars(StderrData(c))
        /\ WF_pc(ExitEvent(c))
        /\ WF_vars(SpawnError(c))
        /\ WF_vars(ExecCallback(c))
        /\ WF_vars(ExecLine(c))
        /\ WF_vars(ExecResolve(c))

FairSpec == Init /\ [][Next]_vars /\ Fairness


\* ------------------------------------------------- what the claims speak of
Resolved(c) == promise[c].state = "fulfilled"

Failed(c) == promise[c].state = "rejected"

\* The pids reachable from root by parent-pid links of the listing.
RECURSIVE Descend(_, _, _)
Descend(S, rows, n) ==
    IF n = 0 THEN S
    ELSE Descend(S \cup {rows[i].pid : i \in {j \in DOMAIN rows : rows[j].ppid \in S}},
                 rows, n - 1)

Reachable(rows, root) == Descend({root}, rows, Len(rows))

\* No record of the listing is its own ancestor.
Acyclic(rows) ==
    \A i \in DOMAIN rows :
        rows[i].pid \notin
            Descend({rows[j].pid : j \in {k \in DOMAIN rows : rows[k].ppid = rows[i].pid}},
                    rows, Len(rows))

\* The objects of the tree under an item: the item and all it reaches through
\* children arrays.
RECURSIVE Grow(_, _, _)
Grow(S, h, n) ==
    IF n = 0 THEN S
    ELSE Grow(S \cup UNION {Range(h[id].children) : id \in S}, h, n - 1)

TreeIds(h, item) == IF item = NoItem THEN {} ELSE Grow({item}, h, Len(h))

TreePids(h, item) == {h[id].pid : id \in TreeIds(h, item)}

ChildPids(h, id) == [i \in DOMAIN h[id].children |-> h[h[id].children[i]].pid]

\* A tree as a value: its records, each with the pids of its children.
Shape(h, item) ==
    {[pid |-> h[id].pid, ppid |-> h[id].ppid, name |-> h[id].name, cmd |-> h[id].cmd,
      load |-> h[id].load, mem |-> h[id].mem, hasChildren |-> h[id].hasChildren,
      kids |-> ChildPids(h, id)] : id \in TreeIds(h, item)}

\* The same call run alone, on a heap and a map of its own.
RECURSIVE PsAlone(_, _, _, _, _)
PsAlone(st, lines, i, c, root) ==
    IF i > Len(lines) THEN st
    ELSE PsAlone(ProcessLine(st, c, root, lines[i]), lines, i + 1, c, root)

Alone(c) ==
    IF platform = "win32"
    THEN LET r == OnExit(<<>>, c, rootPid[c], TextOf(c), <<>>)
         IN [heap |-> r.heap, item |-> r.settle.value, state |-> r.settle.state]
    ELSE LET r == PsAlone([heap |-> <<>>, map |-> <<>>, rootItem |-> NoItem],
                          TextOf(c), 1, c, rootPid[c])
         IN [heap |-> r.heap, item |-> r.rootItem, state |-> "fulfilled"]

\* ------------------------------------------------------------------ claims
\* C1: whenever listProcesses resolves with a tree, the records of the tree are
\* exactly the root and the records reachable from rootPid by parent-pid links
\* of the listing, and the children of each node are exactly the listed
\* records whose ppid is the node's pid, for every order of the listing. (It is
\* stated for the listings whose parent links have no cycle: the claim fails
\* on those already.)
C1_TreeIsReachableSubtree ==
    \A c \in Calls :
        Resolved(c) /\ promise[c].value # NoItem /\ Acyclic(listing) =>
            /\ TreePids(heap, promise[c].value) = Reachable(listing, rootPid[c])
            /\ \A id \in TreeIds(heap, promise[c].value) :
                   Range(ChildPids(heap, id)) =
                       {listing[i].pid :
                            i \in {j \in DOMAIN listing : listing[j].ppid = heap[id].pid}}

\* C2: whenever listProcesses resolves, on either platform and also when the
\* listing does not contain rootPid, the value is a record whose pid is rootPid.
C2_ResolvesWithRoot ==
    \A c \in Calls :
        Resolved(c) =>
            /\ promise[c].value # NoItem
            /\ heap[promise[c].value].pid = rootPid[c]

\* C3: the children of every record are in strictly ascending pid order, in
\* every returned tree and after every single addToTree insertion, whatever
\* the order of arrival.
C3_ChildrenAscending ==
    \A id \in DOMAIN heap :
        \A i \in 1..(Len(heap[id].children) - 1) :
            heap[heap[id].children[i]].pid < heap[heap[id].children[i + 1]].pid

\* C3 witness: inside the loop of the ps path, a record has two children of
\* which the one with the larger pid arrived first.
C3_Witness ==
    \E c \in Calls :
        /\ platform = "posix"
        /\ pc[c] = "loop"
        /\ \E id \in DOMAIN heap :
               /\ Len(heap[id].children) >= 2
               /\ heap[id].children[1] > heap[id].children[2]

\* C4: no record of the listing that is not reachable from rootPid by
\* parent-pid links is in the returned tree.
C4_OnlyReachableRecords ==
    \A c \in Calls :
        Resolved(c) =>
            TreePids(heap, promise[c].value) \subseteq Reachable(listing, rootPid[c])

\* C4 witness: a tree of several records was returned while the listing also
\* holds the root's parent and a record of another branch.
C4_Witness ==
    \E c \in Calls :
        /\ Resolved(c)
        /\ Cardinality(TreeIds(heap, promise[c].value)) >= 2
        /\ \E i \in DOMAIN listing :
               /\ listing[i].pid \notin Reachable(listing, rootPid[c])
               /\ \E j \in DOMAIN listing :
                      listing[j].pid = rootPid[c] /\ listing[j].ppid = listing[i].pid

\* C5: the call fails whenever the external process writes to stderr, exits
\* with a non-zero status, or writes output that cannot be parsed.
C5_FailureRejects ==
    \A c \in Calls :
        /\ pc[c] = "done"
        /\ \/ child[c].run.errText # <<>>
           \/ child[c].run.code # 0
           \/ platform = "win32" /\ ~JSONparse(TextOf(c)).ok
        => Failed(c)

\* C6: on the Windows path the output is interpreted only after the helper
\* has exited and all of its stdout and stderr has been delivered: the call
\* is never settled by what a prefix of the output gives, so its outcome is
\* the outcome of the handler on everything the helper wrote.
C6_ExitAfterAllData ==
    \A c \in Calls :
        platform = "win32" /\ pc[c] = "done" =>
            promise[c].state =
                OnExit(<<>>, c, rootPid[c], TextOf(c), child[c].run.errText).settle.state

\* C7: on the Windows path, if rootPid is not the processId of any
\* 'processInfo' record of the parsed output, the call rejects with an error
\* whose message names the pid, and it never resolves.
InfoPids(items) == {items[i].pid : i \in {j \in DOMAIN items : items[j].type = "processInfo"}}

C7_MissingRootNeverResolves ==
    \A c \in Calls :
        /\ platform = "win32"
        /\ pc[c] # "idle"
        /\ rootPid[c] \notin InfoPids(TextOf(c))
        => ~Resolved(c)

C7_MissingRootStep ==
    \A c \in Calls :
        /\ platform = "win32"
        /\ pc[c] = "waiting"
        /\ pc'[c] = "done"
        /\ stderr[c] = <<>>
        /\ JSONparse(stdout[c]).ok
        /\ rootPid[c] \notin InfoPids(JSONparse(stdout[c]).items)
        => /\ promise'[c].state = "rejected"
           /\ ToString(rootPid[c]) \in Range(promise'[c].reason)

C7_MissingRootRejects == [][C7_MissingRootStep]_vars /\ []C7_MissingRootNeverResolves

\* C7 witness: the helper reported the root only as a 'topProcess' record and
\* the call was rejected with the root-not-found error.
C7_Witness ==
    \E c \in Calls :
        /\ platform = "win32"
        /\ child[c].run.top
        /\ Failed(c)
        /\ promise[c].reason = RootNotFound(rootPid[c])

\* C8: concurrent calls each give the result they give when run alone; the
\* records of a call are made by that call and reach only its own records.
C8_CallsIndependent ==
    \A c \in Calls :
        /\ \A id \in DOMAIN heap :
               \A k \in Range(heap[id].children) : heap[k].owner = heap[id].owner
        /\ \A id \in TreeIds(heap, rootItem[c]) : heap[id].owner = c
        /\ Resolved(c) =>
               LET alone == Alone(c)
               IN /\ rootItem[c] = promise[c].value
                  /\ alone.state = "fulfilled"
                  /\ (promise[c].value = NoItem) = (alone.item = NoItem)
                  /\ Shape(heap, promise[c].value) = Shape(alone.heap, alone.item)
        /\ Failed(c) /\ platform = "win32" /\ promise[c].reason = RootNotFound(rootPid[c])
               => Alone(c).state = "rejected"

\* C8 witness: two calls with different roots were in flight together and
\* both have returned a tree of several records.
C8_Witness ==
    /\ callers = Calls
    /\ rootPid[1] # rootPid[2]
    /\ \A c \in Calls :
           /\ Resolved(c)
           /\ Cardinality(TreeIds(heap, promise[c].value)) >= 2
    /\ \E id \in DOMAIN heap : heap[id].owner = 1 /\ id > 1 /\ heap[id - 1].owner = 2

\* C9: a record has a children field if and only if it has a child.
C9_ChildrenFieldIffChild ==
    \A id \in DOMAIN heap : heap[id].hasChildren <=> heap[id].children # <<>>

\* C9 witness: a returned tree holds a record with children and a leaf.
C9_Witness ==
    \E c \in Calls :
        /\ Resolved(c)
        /\ \E a, b \in TreeIds(heap, promise[c].value) :
               heap[a].hasChildren /\ ~heap[b].hasChildren

\* C10: findName returns the label of the first of the rules watcher, crash
\* reporter, winpty pipe, console host, --type=<value> that matches; the
\* script-name heuristic and the verbatim fallback are reached only when none
\* of the five matches.
IsTypeValue(cmd, v) ==
    /\ v # <<>>
    /\ Range(v) \subseteq NameChars
    /\ \E i \in 1..Len(cmd) : HasAt(cmd, TYPE_PREFIX \o v, i)

HasTypeFlag(cmd) ==
    \E i \in 1..(Len(cmd) - 7) : HasAt(cmd, TYPE_PREFIX, i) /\ cmd[i + 7] \in NameChars

RuleLabels == {LabelWatcher, LabelCrashReporter, LabelWinpty, LabelConsoleHost}

C10_FirstMatchingRuleWins ==
    fn.called =>
        LET cmd == fn.cmd
            watcher == RegexTest(WINDOWS_WATCHER_HINT, cmd)
            crash == RegexTest(WINDOWS_CRASH_REPORTER, cmd)
            pty == RegexTest(WINDOWS_PTY, cmd)
            conhost == RegexTest(WINDOWS_CONSOLE_HOST, cmd)
        IN IF watcher THEN fn.name = LabelWatcher
           ELSE IF crash THEN fn.name = LabelCrashReporter
           ELSE IF pty THEN fn.name = LabelWinpty
           ELSE IF conhost THEN fn.name = LabelConsoleHost
           ELSE IF HasTypeFlag(cmd)
           THEN \/ fn.name \in {LabelSharedProcess, LabelWindow}
                \/ IsTypeValue(cmd, fn.name)
           ELSE \/ fn.name = cmd
                \/ StartsWith(fn.name, ELECTRON_NODE)

\* C10 witness: a command line that matches the crash-reporter rule, the
\* console-host rule and the --type rule, but not the watcher rule, was labelled.
C10_Witness ==
    /\ fn.called
    /\ ~RegexTest(WINDOWS_WATCHER_HINT, fn.cmd)
    /\ RegexTest(WINDOWS_CRASH_REPORTER, fn.cmd)
    /\ RegexTest(WINDOWS_CONSOLE_HOST, fn.cmd)
    /\ HasTypeFlag(fn.cmd)

\* C11: for a command line that matches none of the watcher, crash-reporter,
\* winpty and console-host rules and contains a flag --type=<value> (of several
\* flags, the first): findName returns "window" when the value is renderer and
\* --disable-blink-features=Auxclick is present, "shared-process" when the
\* value is renderer and that flag is absent, and the value itself otherwise.
NoSignatureRule(cmd) ==
    /\ ~RegexTest(WINDOWS_WATCHER_HINT, cmd)
    /\ ~RegexTest(WINDOWS_CRASH_REPORTER, cmd)
    /\ ~RegexTest(WINDOWS_PTY, cmd)
    /\ ~RegexTest(WINDOWS_CONSOLE_HOST, cmd)

\* Where a flag --type=<value> with a value of at least one character starts.
FlagStarts(cmd) ==
    {i \in 1..(Len(cmd) - 7) : HasAt(cmd, TYPE_PREFIX, i) /\ cmd[i + 7] \in NameChars}

\* The value of the flag at i: up to the first character no value is made of.
FlagValue(cmd, i) ==
    LET j == CHOOSE k \in (i + 7)..Len(cmd) :
                 /\ \A l \in (i + 7)..k : cmd[l] \in NameChars
                 /\ k = Len(cmd) \/ cmd[k + 1] \notin NameChars
    IN SubSeq(cmd, i + 7, j)

C11_TypeRuleLabels ==
    fn.called /\ NoSignatureRule(fn.cmd) /\ FlagStarts(fn.cmd) # {} =>
        LET value == FlagValue(fn.cmd, Min(FlagStarts(fn.cmd)))
        IN fn.name = IF value = RENDERER
                     THEN IF RegexTest(RENDERER_PROCESS_HINT, fn.cmd)
                          THEN LabelWindow
                          ELSE LabelSharedProcess
                     ELSE value

\* C11 witness: a command line with --type=renderer, a second --type flag and
\* the Auxclick flag was labelled "window".
C11_Witness ==
    /\ fn.called
    /\ NoSignatureRule(fn.cmd)
    /\ Cardinality(FlagStarts(fn.cmd)) >= 2
    /\ RegexTest(RENDERER_PROCESS_HINT, fn.cmd)
    /\ fn.name = LabelWindow

\* C12: for a command line that matches none of the five pattern rules:
\* if it holds at least one script name (a name followed by .js) and does not
\* start with "node ", findName returns "electron_node " followed by every
\* script name in order of occurrence, each followed by one blank; in every
\* other case it returns the command line as it is.
\* The script names from position i on, read from left to right: a name is a
\* run of [a-zA-Z-], and the next one starts after the ".js" of the one before.
RECURSIVE ScriptNames(_, _)
ScriptNames(cmd, i) ==
    IF i > Len(cmd) THEN <<>>
    ELSE IF cmd[i] \notin NameChars THEN ScriptNames(cmd, i + 1)
    ELSE LET j == CHOOSE e \in i..Len(cmd) :
                      /\ \A k \in i..e : cmd[k] \in NameChars
                      /\ e = Len(cmd) \/ cmd[e + 1] \notin NameChars
         IN IF HasAt(cmd, JS_SUFFIX, j + 1)
            THEN SubSeq(cmd, i, j + 3) \o <<" ">> \o ScriptNames(cmd, j + 4)
            ELSE ScriptNames(cmd, i + 1)

C12_ScriptNameHeuristic ==
    fn.called /\ NoSignatureRule(fn.cmd) /\ FlagStarts(fn.cmd) = {} =>
        fn.name = IF ScriptNames(fn.cmd, 1) # <<>> /\ ~HasAt(fn.cmd, NODE_PREFIX, 1)
                  THEN ELECTRON_NODE \o ScriptNames(fn.cmd, 1)
                  ELSE fn.cmd

\* C12 witness: "/usr/bin/x foo.js bar.js" was labelled
\* "electron_node foo.js bar.js ".
C12_Witness ==
    /\ fn.called
    /\ fn.cmd = <<"/", "u", "s", "r", "/", "b", "i", "n", "/", "x", " ",
                  "f", "o", "o", ".", "j", "s", " ", "b", "a", "r", ".", "j", "s">>
    /\ fn.name = ELECTRON_NODE \o <<"f", "o", "o", ".", "j", "s", " ",
                                     "b", "a", "r", ".", "j", "s", " ">>

\* C13: findName is deterministic and free of side effects: a second call on
\* a command line returns the label of the first, whatever calls on other
\* command lines were made before or in between, and no matcher state (the
\* position of the global script-name pattern) is left from one call to the next.
C13_SameLabelStep == fn.called /\ fn'.called => fn'.name = fn.name

C13_NoMatcherState == fn.js = 1

C13_Deterministic == [][C13_SameLabelStep]_vars /\ []C13_NoMatcherState

\* C13 witness: a command line with two script names was labelled through
\* the script-name loop twice, and another command line once.
C13_Witness ==
    /\ fn.called
    /\ fn.again
    /\ fn.other
    /\ StartsWith(fn.name, ELECTRON_NODE)
    /\ Cardinality({i \in 1..Len(fn.cmd) : HasAt(fn.cmd, JS_SUFFIX, i)}) >= 2

\* C14: for every record of a returned tree, on both platform paths, cmd is
\* the command line exactly as the operating system's query reported it for
\* that pid.
Reported(pid) == CommandLineOf(Tok("processInfo", pid, 0))

C14_CmdIsRaw ==
    \A c \in Calls :
        Resolved(c) =>
            \A id \in TreeIds(heap, promise[c].value) :
                heap[id].cmd = Reported(heap[id].pid)

\* C14 as amended: cmd is the reported command line, but on the Windows path
\* without a \\?\ or \??\ at its start or right after an opening double quote,
\* and on the POSIX path without the white space at its start and end.
UNCPrefixes == {<<"\\", "\\", "?", "\\">>, <<"\\", "?", "?", "\\">>}

WithoutUNC(raw) ==
    LET q == IF raw # <<>> /\ raw[1] = "\"" THEN 1 ELSE 0
    IN IF \E p \in UNCPrefixes : HasAt(raw, p, q + 1)
       THEN SubSeq(raw, 1, q) \o SubSeq(raw, q + 5, Len(raw))
       ELSE raw

IsTrimOf(cmd, raw) ==
    \E i, j \in 1..Len(raw) :
        /\ cmd = SubSeq(raw, i, j)
        /\ raw[i] # " " /\ raw[j] # " "
        /\ \A k \in (1..(i - 1)) \cup ((j + 1)..Len(raw)) : raw[k] = " "

C14_CmdIsCleaned ==
    \A c \in Calls :
        Resolved(c) =>
            \A id \in TreeIds(heap, promise[c].value) :
                IF platform = "win32"
                THEN heap[id].cmd = WithoutUNC(Reported(heap[id].pid))
                ELSE IsTrimOf(heap[id].cmd, Reported(heap[id].pid))

\* C14 witness: the helper's tree holds a record whose quoted command line
\* lost its prefix.
C14_Witness ==
    \E c \in Calls :
        /\ platform = "win32"
        /\ Resolved(c)
        /\ \E id \in TreeIds(heap, promise[c].value) :
               /\ Reported(heap[id].pid)[1] = "\""
               /\ heap[id].cmd # Reported(heap[id].pid)

\* C15: on the POSIX path, when ps succeeds but no line has pid rootPid, the
\* call does not fail: it resolves with undefined, and no record at all is
\* added to the working map.
ListedPids == {listing[i].pid : i \in DOMAIN listing}

C15_PosixMissingRoot ==
    \A c \in Calls :
        /\ platform = "posix"
        /\ pc[c] # "idle"
        /\ rootPid[c] \notin ListedPids
        => /\ map[c] = <<>>
           /\ \A id \in DOMAIN heap : heap[id].owner # c
           /\ pc[c] = "done" /\ child[c].run.code = 0 /\ child[c].run.errText = <<>>
                  => Resolved(c) /\ promise[c].value = NoItem

\* C15 witness: ps listed a process and its child, but not the root, and
\* the call has resolved.
C15_Witness ==
    \E c \in Calls :
        /\ platform = "posix"
        /\ Resolved(c)
        /\ rootPid[c] \notin ListedPids
        /\ \E i, j \in DOMAIN listing : i < j /\ listing[j].ppid = listing[i].pid

\* C16: on the POSIX path a record is added to the working map and tree only
\* if its pid is rootPid or its parent pid is already in the map when its
\* line is processed; so the single-pass result is the result of a two-pass
\* build (map all records, link by ppid, prune to the subtree of rootPid) for
\* every listing with unique pids in which each descendant's line comes after
\* its parent's line: the two differ only where a descendant of the root
\* precedes its parent.
RECURSIVE Ascending(_)
Ascending(S) ==
    IF S = {} THEN <<>> ELSE LET m == Min(S) IN <<m>> \o Ascending(S \ {m})

TwoPass(rows, root) ==
    IF \A i \in DOMAIN rows : rows[i].pid # root THEN {}
    ELSE {[pid |-> rows[i].pid, ppid |-> rows[i].ppid,
           kids |-> Ascending({rows[j].pid :
                                   j \in {k \in DOMAIN rows : rows[k].ppid = rows[i].pid}})] :
              i \in {j \in DOMAIN rows : rows[j].pid \in Reachable(rows, root)}}

SinglePass(h, item) ==
    {[pid |-> h[id].pid, ppid |-> h[id].ppid, kids |-> ChildPids(h, id)] :
         id \in TreeIds(h, item)}

\* The pids reachable from root by one parent-pid link or more.
Descendants(rows, root) ==
    Descend({rows[i].pid : i \in {j \in DOMAIN rows : rows[j].ppid = root}},
            rows, Len(rows))

ParentFirst(rows, root) ==
    \A i \in DOMAIN rows :
        rows[i].pid \in Descendants(rows, root) =>
            \E j \in 1..(i - 1) : rows[j].pid = rows[i].ppid

C16_AddOnlyIfStep ==
    \A c \in Calls :
        /\ pc[c] = "loop"
        /\ lineNo'[c] = lineNo[c] + 1
        /\ heap' # heap \/ map'[c] # map[c] \/ rootItem'[c] # rootItem[c]
        => LET line == stdout[c][lineNo[c]]
           IN /\ line.type = "line"
              /\ line.pid = rootPid[c] \/ MapHas(map[c], line.ppid)

C16_SinglePassIsTwoPass ==
    \A c \in Calls :
        platform = "posix" /\ Resolved(c) /\ ParentFirst(listing, rootPid[c]) =>
            SinglePass(heap, promise[c].value) = TwoPass(listing, rootPid[c])

C16_SinglePass == [][C16_AddOnlyIfStep]_vars /\ []C16_SinglePassIsTwoPass

\* C16 witness: ps listed, not in pid order, a process outside the root's
\* subtree and the root with descendants, each after its parent, and the
\* call has resolved.
C16_Witness ==
    \E c \in Calls :
        /\ platform = "posix"
        /\ Resolved(c)
        /\ ParentFirst(listing, rootPid[c])
        /\ Cardinality(TreeIds(heap, promise[c].value)) >= 2
        /\ ListedPids \ Reachable(listing, rootPid[c]) # {}
        /\ \E i, j \in DOMAIN listing : i < j /\ listing[i].pid > listing[j].pid

\* C17: on the POSIX path, lines that do not match the pid/ppid/pcpu/pmem/
\* command pattern are skipped without aborting the parse: the resulting
\* tree is the tree of the same lines without the lines that do not match, and
\* the call still resolves.
IsProcessLine(line) == line.type = "line"

C17_MalformedLinesSkipped ==
    \A c \in Calls :
        /\ platform = "posix"
        /\ pc[c] = "done"
        /\ child[c].run.code = 0
        /\ child[c].run.errText = <<>>
        => /\ Resolved(c)
           /\ LET r == PsAlone([heap |-> <<>>, map |-> <<>>, rootItem |-> NoItem],
                               SelectSeq(TextOf(c), IsProcessLine), 1, c, rootPid[c])
              IN /\ (promise[c].value = NoItem) = (r.rootItem = NoItem)
                 /\ Shape(heap, promise[c].value) = Shape(r.heap, r.rootItem)

\* C17 witness: ps wrote a line of another form before every process line, and
\* the call has resolved with a tree of three records or more.
C17_Witness ==
    \E c \in Calls :
        /\ platform = "posix"
        /\ Resolved(c)
        /\ child[c].run.noisy
        /\ Cardinality(TreeIds(heap, promise[c].value)) >= 3
        /\ Len(SelectSeq(TextOf(c), IsProcessLine)) + 2 <= Len(TextOf(c))

\* C18: on the Windows path the load of every snapshot record is the
\* arithmetic mean of its cpuLoad samples, and exactly -1 whenever no samples
\* were reported for it: when the cpuLoad field is missing or null, and also
\* when it is an empty array.
C18_LoadIsMeanOrMinusOne ==
    platform = "win32" =>
        \A id \in DOMAIN heap :
            LET cpuLoad == CpuLoadOf(Tok("processInfo", heap[id].pid, heap[id].ppid))
            IN heap[id].load =
                   IF cpuLoad.present /\ cpuLoad.samples # <<>>
                   THEN Num(Sum(cpuLoad.samples), Len(cpuLoad.samples))
                   ELSE Num(-1, 1)

\* C19: the labels of the four signature rules are exactly "watcherService"
\* for the file-watcher helper, "electron-crash-reporter" for the crash
\* reporter, "winpty-process" for the pseudo-terminal control pipe and
\* "console-window-host (Windows internal process)" for the console host, with
\* no character more or less.
C19_SignatureLabels ==
    fn.called =>
        IF RegexTest(WINDOWS_WATCHER_HINT, fn.cmd)
        THEN fn.name = <<"w", "a", "t", "c", "h", "e", "r", "S", "e", "r", "v", "i", "c", "e">>
        ELSE IF RegexTest(WINDOWS_CRASH_REPORTER, fn.cmd)
        THEN fn.name = <<"e", "l", "e", "c", "t", "r", "o", "n", "-", "c", "r", "a", "s", "h",
                         "-", "r", "e", "p", "o", "r", "t", "e", "r">>
        ELSE IF RegexTest(WINDOWS_PTY, fn.cmd)
        THEN fn.name = <<"w", "i", "n", "p", "t", "y", "-", "p", "r", "o", "c", "e", "s", "s">>
        ELSE IF RegexTest(WINDOWS_CONSOLE_HOST, fn.cmd)
        THEN fn.name = <<"c", "o", "n", "s", "o", "l", "e", "-", "w", "i", "n", "d", "o", "w",
                         "-", "h", "o", "s", "t", " ", "(", "W", "i", "n", "d", "o", "w", "s",
                         " ", "i", "n", "t", "e", "r", "n", "a", "l", " ", "p", "r", "o", "c",
                         "e", "s", "s", ")">>
        ELSE TRUE

\* C20: every value listProcesses returns is a finite tree: each pid occurs
\* at most once in it, and no record is its own ancestor or child, also for a
\* listing with a record whose parent pid is its own pid, with two records
\* naming each other as parent, or with the root's parent pid naming one of
\* the root's descendants.
C20_ResultIsFiniteTree ==
    \A c \in Calls :
        Resolved(c) =>
            LET ids == TreeIds(heap, promise[c].value)
            IN /\ \A a, b \in ids : heap[a].pid = heap[b].pid => a = b
               /\ \A a \in ids : a \notin Grow(Range(heap[a].children), heap, Len(heap))
               /\ \A a \in ids :
                      Cardinality({<<b, i>> \in ids \X (1..Len(heap)) :
                                       /\ i \in DOMAIN heap[b].children
                                       /\ heap[b].children[i] = a}) <= 1

\* Once settled, the promise of a call keeps its state, value and reason.
C21_SettledStays ==
    \A c \in Calls : promise[c].state # "pending" => promise'[c] = promise[c]

\* The external process of a call has run to its end and all its events
\* have been delivered, or it could not be started and its 'error' event has
\* been delivered: nothing of the call is left to happen.
Over(c) == pc[c] \in {"done", "failed"}

\* C21: every listProcesses call settles exactly once: in every sequence of
\* events of the external process (data chunks, normal exit, abnormal exit,
\* failure to start) the promise is never both resolved and rejected nor
\* settled twice, and under fairness it is eventually settled once the
\* external process has ended or has failed to start.
C21_SettlesExactlyOnce ==
    /\ [][C21_SettledStays]_vars
    /\ \A c \in Calls : (pc[c] # "idle") ~> (promise[c].state # "pending")

\* C21, the part a finite run decides: when nothing of a call is left to
\* happen, its promise is settled.
C21_OverIsSettled ==
    \A c \in Calls : Over(c) => promise[c].state # "pending"

====
